---- MODULE Spec2Model ----
(***************************************************************************)
(* Model of stratofax/website-crawler: WebsiteCrawler (process_url, crawl, *)
(* _crawl_page, crawl_page) of src/src/website_crawler.py.                 *)
(*                                                                         *)
(* A URL string is a sequence of tokens: a token is a delimiter (":", "/", *)
(* "?", "#", "[", "]", "@", ";") or a word (a run of other characters);   *)
(* the                                                                     *)
(* characters of the configured domain always form a word of their own, so *)
(* that "sub.example.com" is << "sub.", "example.com" >>.  urlparse,       *)
(* urljoin and the f-string of process_url work on those token sequences   *)
(* the way the library works on the characters.                            *)
(***************************************************************************)
EXTENDS Integers, Sequences, FiniteSets, TLC

VARIABLES
    pc,              \* "idle" | "running" | "returned" | "raised": the caller's position
    entry,           \* "none" | "crawl" | "crawl_page": the public method the caller invoked
    collect_external,\* argument of the call
    recursive,       \* argument of the call
    stack,           \* call stack of _crawl_page / crawl_page frames, top is last
    visited_urls,    \* self.visited_urls
    results,         \* self.results
    external_links,  \* self.external_links
    calls,           \* the calls of session.get, in order: the URL and what came back
    seen,            \* hrefs, normalized, that the bodies of the pages fetched with a
                     \* success status hold
    after_failure,   \* the internal ones among them that follow, on their page, a link
                     \* to a page whose fetch failed
    slept,           \* time.sleep(1) has run since the last call of session.get
    pages_only,      \* argument of the call
    args,            \* the URLs a caller passes to process_url, one call after the other
    rets,            \* what the calls of process_url made so far gave
    files,           \* the files written so far: for a name, whether it exists and its rows
    exit_code        \* "none" while main() runs, then the exit code of the process, as text

vars == <<pc, entry, collect_external, recursive, stack, visited_urls, results,
          external_links, calls, seen, after_failure, slept, pages_only, args, rets,
          files, exit_code>>

----------------------------------------------------------------------------
(* Bounds *)

\* a fetched page holds at most MaxLinks anchors with an href
MaxLinks == 3

----------------------------------------------------------------------------
(* Strings as token sequences *)

Delims == {":", "/", "?", "#", "[", "]", "@", ";"}

\* str.lower() on a word
lower(w) ==
    CASE w = "HTTPS" -> "https"
      [] w = "HTTP" -> "http"
      [] w = "Example.com" -> "example.com"
      [] OTHER -> w

\* index of the first token of s that is in D, Len(s) + 1 when there is none
FirstIn(s, D) ==
    IF \E i \in 1..Len(s) : s[i] \in D
    THEN CHOOSE i \in 1..Len(s) : s[i] \in D /\ \A j \in 1..(i - 1) : s[j] \notin D
    ELSE Len(s) + 1

From(s, k) == SubSeq(s, k, Len(s))

Upto(s, k) == SubSeq(s, 1, IF k > Len(s) THEN Len(s) ELSE k)

Has(s, t) == \E i \in 1..Len(s) : s[i] = t

\* str.rstrip('/')
RECURSIVE rstrip(_)
rstrip(s) ==
    IF s # <<>> /\ s[Len(s)] = "/" THEN rstrip(Upto(s, Len(s) - 1)) ELSE s

\* index of the last token of s that is t, 0 when there is none
LastIn(s, t) ==
    IF Has(s, t)
    THEN CHOOSE i \in 1..Len(s) : s[i] = t /\ \A j \in (i + 1)..Len(s) : s[j] # t
    ELSE 0

\* urlparse: the schemes whose last path segment can carry ";parameters"
uses_params == {"", "ftp", "http", "https", "tel"}

\* _splitparams: index of the first ";" in the last segment of path, Len(path) + 1
\* when there is none
ParamsAt(scheme, path) ==
    IF scheme \notin uses_params THEN Len(path) + 1
    ELSE IF LastIn(path, "/") = 0 THEN FirstIn(path, {";"})
    ELSE LastIn(path, "/") - 1 + FirstIn(From(path, LastIn(path, "/")), {";"})

\* urlparse, last step: the parameters leave the path
split_params(scheme, netloc, path, query, fragment) ==
    [raises   |-> Has(netloc, "[") # Has(netloc, "]"),
     scheme   |-> scheme,
     netloc   |-> netloc,
     path     |-> Upto(path, ParamsAt(scheme, path) - 1),
     params   |-> From(path, ParamsAt(scheme, path) + 1),
     query    |-> query,
     fragment |-> fragment]

\* urlsplit, last step: the query is what follows the first "?"
split_query(scheme, netloc, url, fragment) ==
    split_params(scheme, netloc, Upto(url, FirstIn(url, {"?"}) - 1),
                 From(url, FirstIn(url, {"?"}) + 1), fragment)

\* urlsplit: the fragment is what follows the first "#"
split_fragment(scheme, netloc, url) ==
    split_query(scheme, netloc, Upto(url, FirstIn(url, {"#"}) - 1),
                From(url, FirstIn(url, {"#"}) + 1))

\* urlsplit: after "//" the netloc runs to the first "/", "?" or "#"
split_netloc(scheme, url) ==
    IF Len(url) >= 2 /\ url[1] = "/" /\ url[2] = "/"
    THEN split_fragment(scheme,
                        Upto(From(url, 3), FirstIn(From(url, 3), {"/", "?", "#"}) - 1),
                        From(From(url, 3), FirstIn(From(url, 3), {"/", "?", "#"})))
    ELSE split_fragment(scheme, <<>>, url)

\* urllib.parse.urlparse(url, scheme=dflt); raises is ValueError("Invalid IPv6 URL")
urlparse(url, dflt) ==
    IF Len(url) >= 2 /\ url[2] = ":" /\ url[1] \notin Delims
    THEN split_netloc(lower(url[1]), From(url, 3))
    ELSE split_netloc(dflt, url)

\* urlunsplit, line 1: "//" and the netloc before the path
with_netloc(scheme, netloc, path) ==
    IF netloc # <<>> \/ (scheme \in {"http", "https", "ftp"} /\ Upto(path, 2) # <<"/", "/">>)
    THEN <<"/", "/">> \o netloc
           \o (IF path # <<>> /\ path[1] # "/" THEN <<"/">> ELSE <<>>) \o path
    ELSE path

\* urllib.parse.urlunparse
urlunparse(scheme, netloc, path, params, query, fragment) ==
    (IF scheme # "" THEN <<scheme, ":">> ELSE <<>>)
    \o with_netloc(scheme, netloc,
                   IF params # <<>> THEN path \o <<";">> \o params ELSE path)
    \o (IF query # <<>> THEN <<"?">> \o query ELSE <<>>)
    \o (IF fragment # <<>> THEN <<"#">> \o fragment ELSE <<>>)

\* the directory of a base path: bpath.split('/') without its last item
Dir(bpath) ==
    IF bpath = <<>> \/ bpath[Len(bpath)] = "/" THEN bpath
    ELSE Upto(bpath, Len(bpath) - 1)

\* '/'.join(segments) after segments[1:-1] = filter(None, segments[1:-1])
RECURSIVE Collapse(_)
Collapse(p) ==
    IF Len(p) < 2 THEN p
    ELSE IF p[1] = "/" /\ p[2] = "/" THEN Collapse(Tail(p))
    ELSE <<p[1]>> \o Collapse(Tail(p))

\* urljoin, the path of a reference without netloc merged into the base's
merge_paths(bpath, path) ==
    IF path # <<>> /\ path[1] = "/" THEN path
    ELSE Collapse((IF Dir(bpath) = <<>> THEN <<"/">> ELSE Dir(bpath)) \o path)

\* urljoin on the parsed base b and the parsed reference u
join_parsed(b, u, url) ==
    IF b.raises \/ u.raises THEN [raises |-> TRUE, url |-> <<>>]
    ELSE IF u.scheme # b.scheme \/ u.scheme \notin {"http", "https", "ftp", ""}
    THEN [raises |-> FALSE, url |-> url]
    ELSE IF u.netloc # <<>>
    THEN [raises |-> FALSE,
          url |-> urlunparse(u.scheme, u.netloc, u.path, u.params, u.query, u.fragment)]
    ELSE IF u.path = <<>> /\ u.params = <<>>
    THEN [raises |-> FALSE,
          url |-> urlunparse(u.scheme, b.netloc, b.path, b.params,
                             IF u.query = <<>> THEN b.query ELSE u.query, u.fragment)]
    ELSE [raises |-> FALSE,
          url |-> urlunparse(u.scheme, b.netloc, merge_paths(b.path, u.path), u.params,
                             u.query, u.fragment)]

join_base(b, url) == join_parsed(b, urlparse(url, b.scheme), url)

\* urllib.parse.urljoin(base, url); raises is the ValueError of urlparse
urljoin(base, url) ==
    IF base = <<>> THEN [raises |-> FALSE, url |-> url]
    ELSE IF url = <<>> THEN [raises |-> FALSE, url |-> base]
    ELSE join_base(urlparse(base, ""), url)

----------------------------------------------------------------------------
(* WebsiteCrawler *)

\* self.domain, the constructor's argument
domain == "example.com"

Raise(msg) == [ok |-> FALSE, clean_url |-> <<>>, is_internal |-> FALSE, error |-> msg]

\* process_url, lines 51-55: no path for "" and "/", else the path without the
\* slashes at its end
clean_path(path) == IF path = <<>> \/ path = <<"/">> THEN <<>> ELSE rstrip(path)

\* clean_parsed with line 58 gone wrong: every URL that normalizes is internal
clean_parsed_all_internal(parsed_url) ==
    IF parsed_url.raises THEN Raise("URL processing error: Invalid IPv6 URL")
    ELSE IF parsed_url.scheme = "" \/ parsed_url.netloc = <<>>
    THEN Raise("URL processing error: Invalid URL format")
    ELSE IF parsed_url.scheme \notin {"http", "https"}
    THEN Raise("URL processing error: Unsupported protocol")
    ELSE [ok |-> TRUE,
          clean_url |-> <<parsed_url.scheme, ":", "/", "/">> \o parsed_url.netloc
                          \o clean_path(parsed_url.path),
          is_internal |-> TRUE,
          error |-> ""]

\* process_url, lines 47-63, on the parsed URL
clean_parsed(parsed_url) ==
    IF parsed_url.raises THEN Raise("URL processing error: Invalid IPv6 URL")
    ELSE IF parsed_url.scheme = "" \/ parsed_url.netloc = <<>>
    THEN Raise("URL processing error: Invalid URL format")
    ELSE IF parsed_url.scheme \notin {"http", "https"}
    THEN Raise("URL processing error: Unsupported protocol")
    ELSE [ok |-> TRUE,
          clean_url |-> <<parsed_url.scheme, ":", "/", "/">> \o parsed_url.netloc
                          \o clean_path(parsed_url.path),
          is_internal |-> Has(parsed_url.netloc, domain),
          error |-> ""]

\* WebsiteCrawler.process_url: (clean_url, is_internal), or ok = FALSE for
\* URLProcessingError(error)
process_url(url) ==
    IF url = <<>> THEN Raise("Empty URL") ELSE clean_parsed(urlparse(url, ""))

\* self.base_url as __init__ leaves it
base_url == process_url(<<"https", ":", "/", "/", domain>>).clean_url

----------------------------------------------------------------------------
(* The site: what the HTTP fetcher and the HTML parser can hand back *)

\* the href attributes an anchor of a fetched page can carry
Hrefs ==
    { <<"https", ":", "/", "/", "example.com", "/">>,            \* the seed, with a slash
      <<"/", "a">>,
      <<"/", "b", "/">>,
      <<"https", ":", "/", "/", "other.com", "/", "x", "?", "q">>,
      <<"mailto", ":", "m">>,
      <<>>,                                                       \* href=""
      <<"#">>,
      <<"http", ":", "/", "/", "/", "x">>,                        \* http:///x: no host
      <<"/", "/", "[">> }                                         \* urljoin raises on it

\* the href attributes of a site with assets: pictures and documents next to pages
PagesHrefs ==
    { <<"/", "c.jpg">>,
      <<"/", "d.pdf">>,
      <<"/", "e.html">>,
      <<"/", "b", "/">> }

\* the hrefs the anchors of the crawled site carry; the runs that filter pages crawl
\* the site with assets
Anchors == IF pages_only THEN PagesHrefs ELSE Hrefs

\* soup.title: no title element, an element whose .string is None, one with text
NoTitle == [tag |-> FALSE, has_string |-> FALSE, string |-> ""]

EmptyTitle == [tag |-> TRUE, has_string |-> FALSE, string |-> ""]

TextTitle == [tag |-> TRUE, has_string |-> TRUE, string |-> " Home "]

Titles == {NoTitle, EmptyTitle, TextTitle}

\* str.strip()
strip(s) == IF s = " Home " THEN "Home" ELSE s

\* what session.get does for one URL: it raises, or returns a response
TransportError == [kind |-> "exception", status |-> 0, title |-> NoTitle, nlinks |-> 0]

Responses ==
    {TransportError}
    \cup [kind : {"response"}, status : {404, 500}, title : {NoTitle}, nlinks : 0..MaxLinks]
    \cup [kind : {"response"}, status : {200}, title : Titles, nlinks : 0..MaxLinks]

\* raise_for_status that never raises: an error status is taken for a page
raise_for_status_never(status) == FALSE

\* response.raise_for_status() raises requests.HTTPError
raise_for_status(status) == status >= 400

\* process_url of a joined URL, when the join did not raise
process_joined(next_url) ==
    IF next_url.raises THEN Raise("ValueError") ELSE process_url(next_url.url)

\* the URLs crawl_page is called with
EntryURLs ==
    { base_url, <<"mailto", ":", "m">>,
      <<"https", ":", "/", "/", "other.com", "/", "x", "?", "q">> }

\* every href of the model's sites
AllHrefs == Hrefs \cup PagesHrefs

\* the URLs one step of resolving and normalizing leads to from the URLs of U
Resolved(U) ==
    U \cup UNION { { urljoin(u, h).url : h \in { x \in AllHrefs : ~urljoin(u, x).raises } }
                   \cup { process_joined(urljoin(u, h)).clean_url :
                            h \in { x \in AllHrefs : process_joined(urljoin(u, x)).ok } } :
                  u \in U }

\* the URLs a call of _crawl_page or crawl_page can be about
SiteURLs == Resolved(Resolved(EntryURLs))

\* urljoin(u, h) for the URLs of the site and the hrefs of its anchors
JoinTable == [u \in SiteURLs |-> [h \in AllHrefs |-> urljoin(u, h)]]

\* process_url(u) for the URLs of the site
ProcessTable == [u \in SiteURLs |-> process_url(u)]

\* urljoin(u, h), looked up
Joined(u, h) == JoinTable[u][h]

\* process_url(u), looked up
Processed(u) == ProcessTable[u]

\* process_url of a joined URL, looked up, when the join did not raise
ProcessedJoin(next_url) ==
    IF next_url.raises THEN Raise("ValueError") ELSE Processed(next_url.url)

\* the (clean_url, is_internal) of the hrefs in hs, on a page at address url
Normalized(url, hs) ==
    { [clean_url |-> r.clean_url, is_internal |-> r.is_internal] :
        r \in { x \in { ProcessedJoin(Joined(url, h)) : h \in hs } : x.ok } }

\* the links, normalized, that k anchors of a page at address url can carry
Bodies(url, k) == { N \in SUBSET Normalized(url, Anchors) : Cardinality(N) <= k }

----------------------------------------------------------------------------
(* State *)

Frame(fn, url) ==
    [fn |-> fn, url |-> url, clean_url |-> <<>>, pc |-> "enter", left |-> 0,
     child_failed |-> FALSE]

top == stack[Len(stack)]

SetTop(f) == [stack EXCEPT ![Len(stack)] = f]

Pop == Upto(stack, Len(stack) - 1)

\* the names of the files a run can write: the visit report, the external links
FileNames == {"report.csv", "external_links.csv"}

\* no file is written yet
NoFiles == [f \in FileNames |-> [exists |-> FALSE, rows |-> <<>>]]

Init ==
    /\ pc = "idle"
    /\ entry = "none"
    /\ collect_external = FALSE
    /\ recursive = FALSE
    /\ stack = <<>>
    /\ visited_urls = {}
    /\ results = <<>>
    /\ external_links = {}
    /\ calls = <<>>
    /\ seen = {}
    /\ after_failure = {}
    /\ slept = FALSE
    /\ pages_only = FALSE
    /\ args = <<>>
    /\ rets = <<>>
    /\ files = NoFiles
    /\ exit_code = "none"

\* WebsiteCrawler.crawl(collect_external, recursive)
crawl ==
    /\ pc = "idle"
    /\ \E ce \in BOOLEAN, rec \in BOOLEAN :
          /\ collect_external' = ce
          /\ recursive' = rec
    /\ pc' = "running"
    /\ entry' = "crawl"
    /\ stack' = <<Frame("_crawl_page", base_url)>>
    /\ UNCHANGED <<visited_urls, results, external_links, calls, seen, after_failure>>
    /\ UNCHANGED <<slept, pages_only, args, rets, files, exit_code>>

\* WebsiteCrawler.crawl_page(url, collect_external, recursive), called by the user or
\* by check_external_links (line 156); a recursive call starts at the base URL, as
\* check_external_links starts it
crawl_page ==
    /\ pc = "idle"
    /\ \E url \in EntryURLs, ce \in BOOLEAN, rec \in BOOLEAN :
          /\ rec => url = base_url
          /\ collect_external' = ce
          /\ recursive' = rec
          /\ stack' = <<Frame("crawl_page", url)>>
    /\ pc' = "running"
    /\ entry' = "crawl_page"
    /\ UNCHANGED <<visited_urls, results, external_links, calls, seen, after_failure>>
    /\ UNCHANGED <<slept, pages_only, args, rets, files, exit_code>>

\* the fetch of the page at clean_url raised or came back with an error status
FetchFailed(clean_url) ==
    \E i \in DOMAIN calls :
        /\ calls[i].url = clean_url
        /\ calls[i].kind = "exception" \/ calls[i].status >= 400

\* the frame of the callee is gone, control is back in the caller
Return ==
    /\ stack' = IF Len(stack) > 1 /\ FetchFailed(top.clean_url)
                THEN [Pop EXCEPT ![Len(stack) - 1].child_failed = TRUE]
                ELSE Pop
    /\ pc' = IF Len(stack) = 1 THEN "returned" ELSE pc

\* Mark_crawl_page without line 98: the page is fetched but never marked as visited
Mark_crawl_page_unmarked(r) ==
    IF ~r.ok
    THEN /\ results' = Append(results, <<top.url, "Error", 0>>)
         /\ stack' = SetTop([top EXCEPT !.pc = "sleep"])
         /\ UNCHANGED <<pc, visited_urls>>
    ELSE IF ~r.is_internal \/ r.clean_url \in visited_urls
    THEN /\ Return
         /\ UNCHANGED <<visited_urls, results>>
    ELSE /\ stack' = SetTop([top EXCEPT !.clean_url = r.clean_url, !.pc = "fetch"])
         /\ UNCHANGED <<pc, results, visited_urls>>

\* Mark_crawl_page without the internal test of line 95: an external page that is
\* not marked yet is marked and fetched
Mark_crawl_page_any_host(r) ==
    IF ~r.ok
    THEN /\ results' = Append(results, <<top.url, "Error", 0>>)
         /\ stack' = SetTop([top EXCEPT !.pc = "sleep"])
         /\ UNCHANGED <<pc, visited_urls>>
    ELSE IF r.clean_url \in visited_urls
    THEN /\ Return
         /\ UNCHANGED <<visited_urls, results>>
    ELSE /\ visited_urls' = visited_urls \cup {r.clean_url}
         /\ stack' = SetTop([top EXCEPT !.clean_url = r.clean_url, !.pc = "fetch"])
         /\ UNCHANGED <<pc, results>>

\* _crawl_page, lines 94-98, r is what process_url(url) gives
Mark_crawl_page(r) ==
    IF ~r.ok
    THEN \* URLProcessingError is an Exception: handler at lines 127-129
         /\ results' = Append(results, <<top.url, "Error", 0>>)
         /\ stack' = SetTop([top EXCEPT !.pc = "sleep"])
         /\ UNCHANGED <<pc, visited_urls>>
    ELSE IF ~r.is_internal \/ r.clean_url \in visited_urls
    THEN /\ Return
         /\ UNCHANGED <<visited_urls, results>>
    ELSE /\ visited_urls' = visited_urls \cup {r.clean_url}
         /\ stack' = SetTop([top EXCEPT !.clean_url = r.clean_url, !.pc = "fetch"])
         /\ UNCHANGED <<pc, results>>

\* _crawl_page, lines 93-99: normalize, test and mark
Enter_crawl_page ==
    /\ pc = "running" /\ stack # <<>>
    /\ top.fn = "_crawl_page" /\ top.pc = "enter"
    /\ Mark_crawl_page(Processed(top.url))
    /\ UNCHANGED <<entry, collect_external, recursive, external_links, calls, seen,
                   after_failure>>
    /\ UNCHANGED <<slept, pages_only, args, rets, files, exit_code>>

\* Mark_public without line 174: the page is fetched but never marked as visited
Mark_public_unmarked(r) ==
    IF ~r.ok
    THEN IF Len(stack) = 1
         THEN /\ stack' = <<>>
              /\ pc' = "raised"
              /\ UNCHANGED <<visited_urls, results>>
         ELSE /\ stack' = [Pop EXCEPT ![Len(stack) - 1].pc = "sleep"]
              /\ results' = Append(results, <<stack[Len(stack) - 1].clean_url, "Error", 0>>)
              /\ UNCHANGED <<pc, visited_urls>>
    ELSE IF r.clean_url = <<>> \/ r.clean_url \in visited_urls
    THEN /\ Return
         /\ UNCHANGED <<visited_urls, results>>
    ELSE /\ stack' = SetTop([top EXCEPT !.clean_url = r.clean_url, !.pc = "fetch"])
         /\ UNCHANGED <<pc, results, visited_urls>>

\* crawl_page, lines 169-174, r is what process_url(url) gives
Mark_public(r) ==
    IF ~r.ok
    THEN \* URLProcessingError leaves crawl_page: to the caller, or into the try
         \* block of the calling crawl_page (handler at lines 208-210)
         IF Len(stack) = 1
         THEN /\ stack' = <<>>
              /\ pc' = "raised"
              /\ UNCHANGED <<visited_urls, results>>
         ELSE /\ stack' = [Pop EXCEPT ![Len(stack) - 1].pc = "sleep"]
              /\ results' = Append(results, <<stack[Len(stack) - 1].clean_url, "Error", 0>>)
              /\ UNCHANGED <<pc, visited_urls>>
    ELSE IF r.clean_url = <<>> \/ r.clean_url \in visited_urls
    THEN /\ Return
         /\ UNCHANGED <<visited_urls, results>>
    ELSE /\ visited_urls' = visited_urls \cup {r.clean_url}
         /\ stack' = SetTop([top EXCEPT !.clean_url = r.clean_url, !.pc = "fetch"])
         /\ UNCHANGED <<pc, results>>

\* crawl_page, lines 168-175: normalize (outside the try), test and mark
Enter_public ==
    /\ pc = "running" /\ stack # <<>>
    /\ top.fn = "crawl_page" /\ top.pc = "enter"
    /\ Mark_public(Processed(top.url))
    /\ UNCHANGED <<entry, collect_external, recursive, external_links, calls, seen,
                   after_failure>>
    /\ UNCHANGED <<slept, pages_only, args, rets, files, exit_code>>

\* the url an error record carries: _crawl_page writes its argument (lines 126, 129),
\* crawl_page the cleaned URL (lines 207, 210)
ErrorURL(f) == IF f.fn = "_crawl_page" THEN f.url ELSE f.clean_url

\* the title of line 106 / 183; raises is the AttributeError of None.strip()
page_title(t) ==
    IF ~t.tag THEN [raises |-> FALSE, title |-> "No title"]
    ELSE IF ~t.has_string THEN [raises |-> TRUE, title |-> ""]
    ELSE [raises |-> FALSE, title |-> strip(t.string)]

\* Handler without its results.append: the failure leaves no record
Handler_silent(status, left) ==
    /\ results' = results
    /\ stack' = SetTop([top EXCEPT !.pc = "sleep", !.left = left])

\* Handler with results replaced by the record of the failure instead of extended
Handler_replaces(status, left) ==
    /\ results' = <<<<ErrorURL(top), "Error", status>>>>
    /\ stack' = SetTop([top EXCEPT !.pc = "sleep", !.left = left])

\* the handlers of lines 124-129 / 205-210: the record of the failure, then on to
\* the sleep; left is the number of anchors of the page that were not looked at
Handler(status, left) ==
    /\ results' = Append(results, <<ErrorURL(top), "Error", status>>)
    /\ stack' = SetTop([top EXCEPT !.pc = "sleep", !.left = left])

\* the page on top of the stack holds the links N: they are part of what the site links
Links(N) ==
    /\ seen' = seen \cup N
    /\ after_failure' =
          IF top.child_failed
          THEN after_failure \cup { x.clean_url : x \in { y \in N : y.is_internal } }
          ELSE after_failure

\* the page on top of the stack has hrefs among its anchors
Unread(hrefs) == Links(Normalized(top.url, hrefs))

\* Respond with the page's record put in front of results instead of appended
Respond_record_first(resp) ==
    IF resp.kind = "exception"
    THEN Handler(0, 0) /\ UNCHANGED <<seen, after_failure>>
    ELSE IF raise_for_status(resp.status)
    THEN Handler(resp.status, resp.nlinks) /\ UNCHANGED <<seen, after_failure>>
    ELSE IF page_title(resp.title).raises
    THEN /\ Handler(0, resp.nlinks)
         /\ \E body \in Bodies(top.url, resp.nlinks) : Links(body)
    ELSE /\ results' = <<<<top.clean_url, page_title(resp.title).title, resp.status>>>>
                           \o results
         /\ stack' = SetTop([top EXCEPT !.pc = "links", !.left = resp.nlinks])
         /\ UNCHANGED <<seen, after_failure>>

\* lines 101-107 / 179-185, resp is what session.get returned
Respond(resp) ==
    IF resp.kind = "exception"
    THEN Handler(0, 0) /\ UNCHANGED <<seen, after_failure>>
    ELSE IF raise_for_status(resp.status)
    THEN Handler(resp.status, resp.nlinks) /\ UNCHANGED <<seen, after_failure>>
    ELSE IF page_title(resp.title).raises
    THEN /\ Handler(0, resp.nlinks)
         /\ \E body \in Bodies(top.url, resp.nlinks) : Links(body)
    ELSE /\ results' = Append(results,
                              <<top.clean_url, page_title(resp.title).title, resp.status>>)
         /\ stack' = SetTop([top EXCEPT !.pc = "links", !.left = resp.nlinks])
         /\ UNCHANGED <<seen, after_failure>>

\* lines 101-107 and 124-129 (crawl_page: 179-185 and 205-210): session.get,
\* raise_for_status, the title and the page's record, or the handler's record
Fetch ==
    /\ pc = "running" /\ stack # <<>>
    /\ top.pc = "fetch"
    /\ \E resp \in Responses :
         /\ calls' = Append(calls, [url |-> top.clean_url, kind |-> resp.kind,
                                    status |-> resp.status, title |-> resp.title])
         /\ Respond(resp)
    /\ slept' = FALSE
    /\ UNCHANGED <<pc, entry, collect_external, recursive, visited_urls, external_links>>
    /\ UNCHANGED <<pages_only, args, rets, files, exit_code>>

\* the frame of the loop after one more anchor; left counts the anchors to come
Advance(f) == [f EXCEPT !.left = f.left - 1]

\* an exception leaves the loop over the anchors: the handler's record, then the sleep;
\* the anchors after the one that raised are part of the page all the same
Abort ==
    /\ Handler(0, top.left - 1)
    /\ \E body \in Bodies(top.url, top.left - 1) : Links(body)
    /\ UNCHANGED external_links

\* Follow_crawl_page with line 118 as a plain else: an external link is collected
\* whether or not collection is enabled
Follow_crawl_page_collects(href, r) ==
    IF ~r.ok
    THEN /\ stack' = SetTop(Advance(top))
         /\ UNCHANGED <<results, external_links, seen, after_failure>>
    ELSE /\ Unread({href})
         /\ results' = results
         /\ IF r.is_internal /\ recursive
            THEN /\ stack' = IF r.clean_url \notin visited_urls
                             THEN Append(SetTop(Advance(top)),
                                         Frame("_crawl_page", r.clean_url))
                             ELSE SetTop(Advance(top))
                 /\ UNCHANGED external_links
            ELSE IF ~r.is_internal
            THEN /\ external_links' = external_links \cup {r.clean_url}
                 /\ stack' = SetTop(Advance(top))
            ELSE /\ stack' = SetTop(Advance(top))
                 /\ UNCHANGED external_links

\* Follow_crawl_page with line 118 as `elif collect_external`: an internal link that
\* is not followed is collected as well
Follow_crawl_page_collects_internal(href, r) ==
    IF ~r.ok
    THEN /\ stack' = SetTop(Advance(top))
         /\ UNCHANGED <<results, external_links, seen, after_failure>>
    ELSE /\ Unread({href})
         /\ results' = results
         /\ IF r.is_internal /\ recursive
            THEN /\ stack' = IF r.clean_url \notin visited_urls
                             THEN Append(SetTop(Advance(top)),
                                         Frame("_crawl_page", r.clean_url))
                             ELSE SetTop(Advance(top))
                 /\ UNCHANGED external_links
            ELSE IF collect_external
            THEN /\ external_links' = external_links \cup {r.clean_url}
                 /\ stack' = SetTop(Advance(top))
            ELSE /\ stack' = SetTop(Advance(top))
                 /\ UNCHANGED external_links

\* lines 113-122 of _crawl_page, r is what process_url(next_url) gives
Follow_crawl_page(href, r) ==
    IF ~r.ok
    THEN /\ stack' = SetTop(Advance(top))
         /\ UNCHANGED <<results, external_links, seen, after_failure>>
    ELSE /\ Unread({href})
         /\ results' = results
         /\ IF r.is_internal /\ recursive
            THEN /\ stack' = IF r.clean_url \notin visited_urls
                             THEN Append(SetTop(Advance(top)),
                                         Frame("_crawl_page", r.clean_url))
                             ELSE SetTop(Advance(top))
                 /\ UNCHANGED external_links
            ELSE IF ~r.is_internal /\ collect_external
            THEN /\ external_links' = external_links \cup {r.clean_url}
                 /\ stack' = SetTop(Advance(top))
            ELSE /\ stack' = SetTop(Advance(top))
                 /\ UNCHANGED external_links

\* line 111 of _crawl_page: a ValueError of urljoin reaches the handler at 127-129
Join_crawl_page(href, next_url) ==
    IF next_url.raises THEN Abort
    ELSE Follow_crawl_page(href, Processed(next_url.url))

\* one iteration of the loop of _crawl_page over soup.find_all('a', href=True),
\* lines 110-122
Link_crawl_page ==
    /\ pc = "running" /\ stack # <<>>
    /\ top.fn = "_crawl_page" /\ top.pc = "links" /\ top.left > 0
    /\ \E href \in Anchors : Join_crawl_page(href, Joined(top.url, href))
    /\ UNCHANGED <<pc, entry, collect_external, recursive, visited_urls, calls>>
    /\ UNCHANGED <<slept, pages_only, args, rets, files, exit_code>>

\* next_url.startswith(('http://', 'https://')), line 194
startswith_http(url) ==
    Upto(url, 4) \in {<<"http", ":", "/", "/">>, <<"https", ":", "/", "/">>}

\* lines 198-203 of crawl_page, r is what process_url(next_url) gives; its
\* URLProcessingError reaches the handler at lines 208-210
Follow_public(href, next_url, r) ==
    IF ~r.ok THEN Abort
    ELSE /\ Unread({href})
         /\ results' = results
         /\ IF r.is_internal
            THEN /\ stack' = IF recursive /\ r.clean_url \notin visited_urls
                             THEN Append(SetTop(Advance(top)), Frame("crawl_page", next_url))
                             ELSE SetTop(Advance(top))
                 /\ UNCHANGED external_links
            ELSE IF collect_external
            THEN /\ external_links' = external_links \cup {next_url}
                 /\ stack' = SetTop(Advance(top))
            ELSE /\ stack' = SetTop(Advance(top))
                 /\ UNCHANGED external_links

\* lines 190-196 of crawl_page: a ValueError of urljoin reaches the handler at
\* lines 208-210, a link that is not http(s) is skipped
Join_public(href, next_url) ==
    IF next_url.raises THEN Abort
    ELSE IF ~startswith_http(next_url.url)
    THEN /\ stack' = SetTop(Advance(top))
         /\ UNCHANGED <<results, external_links, seen, after_failure>>
    ELSE Follow_public(href, next_url.url, Processed(next_url.url))

\* one iteration of the loop of crawl_page, lines 188-203
Link_public ==
    /\ pc = "running" /\ stack # <<>>
    /\ top.fn = "crawl_page" /\ top.pc = "links" /\ top.left > 0
    /\ \E href \in Hrefs : Join_public(href, Joined(top.url, href))
    /\ UNCHANGED <<pc, entry, collect_external, recursive, visited_urls, calls>>
    /\ UNCHANGED <<slept, pages_only, args, rets, files, exit_code>>

\* the loop is over or a handler has run: time.sleep(1) and return, lines 131 / 213
Sleep ==
    /\ pc = "running" /\ stack # <<>>
    /\ top.pc = "sleep" \/ (top.pc = "links" /\ top.left = 0)
    /\ Return
    /\ slept' = TRUE
    /\ UNCHANGED <<entry, collect_external, recursive, visited_urls, results,
                   external_links, calls, seen, after_failure>>
    /\ UNCHANGED <<pages_only, args, rets, files, exit_code>>

Next ==
    \/ crawl
    \/ crawl_page
    \/ Enter_crawl_page
    \/ Enter_public
    \/ Fetch
    \/ Link_crawl_page
    \/ Link_public
    \/ Sleep

Spec == Init /\ [][Next]_vars

----------------------------------------------------------------------------
(* process_url on its own: a caller normalizes two URLs on a fresh crawler *)

Schemes == {"https", "HTTPS", "http", "ftp", "mailto", ""}

Netlocs ==
    { <<"example.com">>, <<"Example.com">>, <<"sub.", "example.com">>, <<"other.com">>,
      <<"example.com", "@", "evil.com">>, <<"example.com", ":", "8080">>, <<>> }

Paths == { <<>>, <<"/", "a">>, <<"/", "a", ";", "p">>, <<"m">> }

\* a URL by its parts; a path that does not start with "/" needs a URL without authority
Parts ==
    { a \in [scheme : Schemes, netloc : Netlocs, path : Paths, slash : BOOLEAN,
             query : BOOLEAN, fragment : BOOLEAN] :
        (a.path = <<"m">>) => (a.netloc = <<>> /\ ~a.slash) }

\* the string of the URL with the parts a
URL(a) ==
    (IF a.scheme # "" THEN <<a.scheme, ":">> ELSE <<>>)
    \o (IF a.netloc # <<>> THEN <<"/", "/">> \o a.netloc ELSE <<>>)
    \o a.path
    \o (IF a.slash THEN <<"/">> ELSE <<>>)
    \o (IF a.query THEN <<"?", "q">> ELSE <<>>)
    \o (IF a.fragment THEN <<"#", "f">> ELSE <<>>)

\* the words of a netloc in lower case
Folded(netloc) == [i \in DOMAIN netloc |-> lower(netloc[i])]

\* two URLs that differ at most in the query, the fragment, the slash at the end and
\* the letter case of scheme and authority
Alike(a, b) ==
    /\ lower(a.scheme) = lower(b.scheme)
    /\ Folded(a.netloc) = Folded(b.netloc)
    /\ a.path = b.path

UrlInit ==
    /\ pc = "idle"
    /\ entry = "none"
    /\ collect_external = FALSE
    /\ recursive = FALSE
    /\ stack = <<>>
    /\ visited_urls = {}
    /\ results = <<>>
    /\ external_links = {}
    /\ calls = <<>>
    /\ seen = {}
    /\ after_failure = {}
    /\ slept = FALSE
    /\ pages_only = FALSE
    /\ \E a \in Parts : \E b \in {x \in Parts : Alike(a, x)} : args = <<a, b>>
    /\ rets = <<>>
    /\ files = NoFiles
    /\ exit_code = "none"

\* WebsiteCrawler.process_url(url) for the next URL of the caller
ProcessURL ==
    /\ Len(rets) < Len(args)
    /\ rets' = Append(rets, process_url(URL(args[Len(rets) + 1])))
    /\ UNCHANGED <<pc, entry, collect_external, recursive, stack, visited_urls, results,
                   external_links, calls, seen, after_failure, slept, pages_only, args,
                   files, exit_code>>

UrlNext == ProcessURL

UrlSpec == UrlInit /\ [][UrlNext]_vars

----------------------------------------------------------------------------
(* Page-only filtering: crawl(pages_only=True) and is_page, which the tests   *)
(* and the command line use; modelled from the specification, sections 4.2   *)
(* and 4.4                                                                    *)

\* the text after the last "." of a word, "" when the word has no "."
Extension(w) ==
    CASE w = "c.jpg" -> "jpg"
      [] w = "d.pdf" -> "pdf"
      [] w = "e.html" -> "html"
      [] w = "f.php" -> "php"
      [] OTHER -> ""

\* the extensions of static assets: images, documents, archives, stylesheets, scripts
AssetExtensions == {"jpg", "png", "gif", "pdf", "zip", "css", "js"}

\* is_page that takes every URL for a page
is_page_always(url) == TRUE

\* is_page that knows no page extension: a last segment with an extension is no page
is_page_extensionless(url) ==
    LET parsed == urlparse(url, "")
    IN /\ ~parsed.raises /\ parsed.scheme # "" /\ parsed.netloc # <<>>
       /\ \/ parsed.path = <<>>
          \/ parsed.path[Len(parsed.path)] = "/"
          \/ Extension(parsed.path[Len(parsed.path)]) = ""

\* is_page(url): the URL parses, to a scheme and a host, and the path is empty, is
\* "/", ends with "/", or its last segment has no asset extension; FALSE, with the
\* event logged, when parsing raises
is_page(url) ==
    LET parsed == urlparse(url, "")
    IN /\ ~parsed.raises /\ parsed.scheme # "" /\ parsed.netloc # <<>>
       /\ \/ parsed.path = <<>>
          \/ parsed.path[Len(parsed.path)] = "/"
          \/ Extension(parsed.path[Len(parsed.path)]) \notin AssetExtensions

\* WebsiteCrawler.crawl(collect_external, recursive, pages_only=True)
crawl_pages_only ==
    /\ pc = "idle"
    /\ \E ce \in BOOLEAN, rec \in BOOLEAN :
          /\ collect_external' = ce
          /\ recursive' = rec
    /\ pages_only' = TRUE
    /\ pc' = "running"
    /\ entry' = "crawl"
    /\ stack' = <<Frame("_crawl_page", base_url)>>
    /\ UNCHANGED <<visited_urls, results, external_links, calls, seen, after_failure>>
    /\ UNCHANGED <<slept, args, rets, files, exit_code>>

\* step 2 of the traversal: with pages_only a URL that is no page is discarded
\* without visiting or recording, before the visited test; r is what process_url
\* gives
Mark_pages(r) ==
    IF r.ok /\ r.is_internal /\ pages_only /\ ~is_page(r.clean_url)
    THEN /\ Return
         /\ UNCHANGED <<visited_urls, results>>
    ELSE Mark_crawl_page(r)

\* _crawl_page with the page filter: normalize, filter, test and mark
Enter_pages ==
    /\ pc = "running" /\ stack # <<>>
    /\ top.fn = "_crawl_page" /\ top.pc = "enter"
    /\ Mark_pages(Processed(top.url))
    /\ UNCHANGED <<entry, collect_external, recursive, external_links, calls, seen,
                   after_failure>>
    /\ UNCHANGED <<slept, pages_only, args, rets, files, exit_code>>

PagesNext ==
    \/ crawl_pages_only
    \/ Enter_pages
    \/ Fetch
    \/ Link_crawl_page
    \/ Sleep

PagesSpec == Init /\ [][PagesNext]_vars

----------------------------------------------------------------------------
(* One instance, several invocations: the caller invokes the crawler again    *)
(* after a crawl() has returned                                               *)

\* crawl(collect_external, recursive) on an instance that has crawled: lines 68-89
\* assign nothing to visited_urls, results and external_links, which __init__ created
\* (lines 27-29)
crawl_again ==
    /\ pc = "returned"
    /\ \E ce \in BOOLEAN, rec \in BOOLEAN :
          /\ collect_external' = ce
          /\ recursive' = rec
    /\ pc' = "running"
    /\ entry' = "crawl"
    /\ stack' = <<Frame("_crawl_page", base_url)>>
    /\ UNCHANGED <<visited_urls, results, external_links, calls, seen, after_failure>>
    /\ UNCHANGED <<slept, pages_only, args, rets, files, exit_code>>

\* crawl_page(base_url, collect_external, recursive) on an instance that has crawled
crawl_page_again ==
    /\ pc = "returned"
    /\ \E ce \in BOOLEAN, rec \in BOOLEAN :
          /\ collect_external' = ce
          /\ recursive' = rec
    /\ pc' = "running"
    /\ entry' = "crawl_page"
    /\ stack' = <<Frame("crawl_page", base_url)>>
    /\ UNCHANGED <<visited_urls, results, external_links, calls, seen, after_failure>>
    /\ UNCHANGED <<slept, pages_only, args, rets, files, exit_code>>

\* _crawl_page(url, collect_external, recursive) called on its own with an external
\* URL, on an instance that has crawled
_crawl_page_external ==
    /\ pc = "returned"
    /\ \E ce \in BOOLEAN, rec \in BOOLEAN :
          /\ collect_external' = ce
          /\ recursive' = rec
    /\ pc' = "running"
    /\ entry' = "_crawl_page"
    /\ stack' = <<Frame("_crawl_page", <<"https", ":", "/", "/", "other.com", "/", "x", "?", "q">>)>>
    /\ UNCHANGED <<visited_urls, results, external_links, calls, seen, after_failure>>
    /\ UNCHANGED <<slept, pages_only, args, rets, files, exit_code>>

AgainNext ==
    \/ crawl
    \/ crawl_again
    \/ crawl_page_again
    \/ _crawl_page_external
    \/ Enter_crawl_page
    \/ Enter_public
    \/ Fetch
    \/ Link_crawl_page
    \/ Sleep

AgainSpec == Init /\ [][AgainNext]_vars

----------------------------------------------------------------------------
(* The reports: save_results and save_external_links_results *)

\* str(n) of a status code, as csv.writer writes a number
str(n) ==
    CASE n = 200 -> "200"
      [] n = 404 -> "404"
      [] n = 500 -> "500"
      [] OTHER -> "0"

\* csv.writer.writerows(self.results): a row of text fields for each record, in order
writerows(rs) == [k \in DOMAIN rs |-> <<rs[k][1], rs[k][2], str(rs[k][3])>>]

\* external URLs, in the order of Python's comparison of str
InOrder ==
    << <<"http", ":", "/", "/", "other.com", "/", "x">>,
       <<"https", ":", "/", "/", "Other.com">>,
       <<"https", ":", "/", "/", "other.com", "/", "x">> >>

\* sorted(S) for a set of external URLs
sorted(S) == SelectSeq(InOrder, LAMBDA u : u \in S)

\* save_results that writes the records without the header row
save_results_headerless ==
    /\ files' = [files EXCEPT !["report.csv"] =
                     [exists |-> TRUE, rows |-> writerows(results)]]
    /\ UNCHANGED <<pc, entry, collect_external, recursive, stack, visited_urls, results,
                   external_links, calls, seen, after_failure, slept, pages_only, args,
                   rets, exit_code>>

\* WebsiteCrawler.save_results(output_file), lines 133-139: the file is opened for
\* writing, the header row and the rows of results are written
save_results ==
    /\ files' = [files EXCEPT !["report.csv"] =
                     [exists |-> TRUE,
                      rows |-> <<<<"URL", "Title", "Status Code">>>> \o writerows(results)]]
    /\ UNCHANGED <<pc, entry, collect_external, recursive, stack, visited_urls, results,
                   external_links, calls, seen, after_failure, slept, pages_only, args,
                   rets, exit_code>>

\* WebsiteCrawler.save_external_links_results(filename), lines 141-148: the header
\* row, then a row for each external link, sorted
save_external_links_results ==
    /\ files' = [files EXCEPT !["external_links.csv"] =
                     [exists |-> TRUE,
                      rows |-> <<<<"External URL">>>>
                                  \o [k \in DOMAIN sorted(external_links) |->
                                         <<sorted(external_links)[k]>>]]]
    /\ UNCHANGED <<pc, entry, collect_external, recursive, stack, visited_urls, results,
                   external_links, calls, seen, after_failure, slept, pages_only, args,
                   rets, exit_code>>

\* the records a crawl can leave in results
Records ==
    { <<base_url, "Home", 200>>,
      <<base_url \o <<"/", "a">>, "Error", 404>>,
      <<base_url \o <<"/", "b">>, "No title", 200>>,
      <<base_url \o <<"/", "a">>, "Error", 0>> }

\* the longest results of a crawler whose reports are written
MaxRecords == 2

\* a crawler after its crawl: some records, some external links, no file yet
ReportInit ==
    /\ pc = "returned"
    /\ entry = "crawl"
    /\ collect_external = TRUE
    /\ recursive = FALSE
    /\ stack = <<>>
    /\ visited_urls = {}
    /\ \E n \in 0..MaxRecords : results \in [1..n -> Records]
    /\ external_links \in SUBSET { InOrder[k] : k \in DOMAIN InOrder }
    /\ calls = <<>>
    /\ seen = {}
    /\ after_failure = {}
    /\ slept = FALSE
    /\ pages_only = FALSE
    /\ args = <<>>
    /\ rets = <<>>
    /\ files = NoFiles
    /\ exit_code = "none"

ReportNext ==
    \/ save_results
    \/ save_external_links_results

ReportSpec == ReportInit /\ [][ReportNext]_vars

----------------------------------------------------------------------------
(* The command line: main() of crawler.py *)

\* the domains given on the command line: three that name a host, the empty one, one
\* that urlparse rejects
Domains == { <<"example.com">>, <<"sub.", "example.com">>, <<"other.com">>, <<>>, <<"[">> }

\* parser.parse_args(), lines 34-59
CommandLines ==
    [domain : Domains, external_links : BOOLEAN, recursive : BOOLEAN, pages : BOOLEAN,
     verbose : BOOLEAN]

\* the keyword parameters of WebsiteCrawler.crawl, line 68 of website_crawler.py
crawl_parameters == {"collect_external", "recursive"}

\* main() is entered with a parsed command line
MainInit ==
    /\ pc = "main"
    /\ entry = "none"
    /\ collect_external = FALSE
    /\ recursive = FALSE
    /\ stack = <<>>
    /\ visited_urls = {}
    /\ results = <<>>
    /\ external_links = {}
    /\ calls = <<>>
    /\ seen = {}
    /\ after_failure = {}
    /\ slept = FALSE
    /\ pages_only = FALSE
    /\ args \in CommandLines
    /\ rets = <<>>
    /\ files = NoFiles
    /\ exit_code = "none"

\* line 63, crawler = WebsiteCrawler(args.domain): __init__ normalizes
\* "https://" + domain (website_crawler.py lines 24-26); what it raises reaches the
\* handler of main, lines 85-87: sys.exit(1)
main_construct ==
    /\ pc = "main"
    /\ IF process_url(<<"https", ":", "/", "/">> \o args.domain).ok
       THEN pc' = "constructed" /\ exit_code' = exit_code
       ELSE pc' = "exited" /\ exit_code' = "1"
    /\ UNCHANGED <<entry, collect_external, recursive, stack, visited_urls, results,
                   external_links, calls, seen, after_failure, slept, pages_only, args,
                   rets, files>>

\* lines 66-71 and 78: crawler.crawl(..., pages_only=args.pages). A keyword that crawl
\* does not take raises TypeError at the call, which reaches the handler of main, lines
\* 85-87: sys.exit(1); the statements after the call, lines 72-83, are reached when
\* crawl returns
main_crawl ==
    /\ pc = "constructed"
    /\ IF "pages_only" \notin crawl_parameters
       THEN /\ pc' = "exited"
            /\ exit_code' = "1"
            /\ UNCHANGED <<entry, collect_external, recursive, pages_only, stack>>
       ELSE /\ pc' = "running"
            /\ entry' = "crawl"
            /\ collect_external' = args.external_links
            /\ recursive' = args.recursive
            /\ pages_only' = args.pages
            /\ stack' = <<Frame("_crawl_page", base_url)>>
            /\ exit_code' = exit_code
    /\ UNCHANGED <<visited_urls, results, external_links, calls, seen, after_failure,
                   slept, args, rets, files>>

MainNext ==
    \/ main_construct
    \/ main_crawl

MainSpec == MainInit /\ [][MainNext]_vars

\* the URLs is_page is called with: pages, assets, and text that is no URL
PageURLs ==
    { base_url \o p : p \in { <<>>, <<"/">>, <<"/", "b", "/">>, <<"/", "a">>,
                             <<"/", "e.html">>, <<"/", "f.php">>, <<"/", "c.jpg">>,
                             <<"/", "d.pdf">>, <<"/", "c.jpg", "?", "q">>,
                             <<"/", "e.html", "#", "f">>, <<"/", "a", "?", "c.jpg">> } }
    \cup { <<"not-a-url">>, <<"http", ":", "/", "/", "[">> }

\* a caller with two URLs to classify
ClassifyInit ==
    /\ pc = "idle"
    /\ entry = "none"
    /\ collect_external = FALSE
    /\ recursive = FALSE
    /\ stack = <<>>
    /\ visited_urls = {}
    /\ results = <<>>
    /\ external_links = {}
    /\ calls = <<>>
    /\ seen = {}
    /\ after_failure = {}
    /\ slept = FALSE
    /\ pages_only = FALSE
    /\ args \in PageURLs \X PageURLs
    /\ rets = <<>>
    /\ files = NoFiles
    /\ exit_code = "none"

\* the caller's next call of is_page
IsPage ==
    /\ Len(rets) < Len(args)
    /\ rets' = Append(rets, is_page(args[Len(rets) + 1]))
    /\ UNCHANGED <<pc, entry, collect_external, recursive, stack, visited_urls, results,
                   external_links, calls, seen, after_failure, slept, pages_only, args,
                   files, exit_code>>

ClassifyNext == IsPage

ClassifySpec == ClassifyInit /\ [][ClassifyNext]_vars

----------------------------------------------------------------------------
(* The claims *)

Returned == pc = "returned"

CrawlRun == entry = "crawl"

\* the canonical form of a URL that process_url accepts
Canon(url) == process_url(url).clean_url

FetchesOf(url) == { i \in DOMAIN calls : calls[i].url = url }

RecordsOf(url) == { k \in DOMAIN results : results[k][1] = url }

Frames == { stack[i] : i \in DOMAIN stack }

\* the internal URLs that pages fetched with a success status link to
Linked == { x.clean_url : x \in { y \in seen : y.is_internal } }

\* crawl() fetches the seed, and a page other than the seed only after reading a link to
\* it on a page that it fetched: the pages reachable from the seed by the links of
\* pages fetched with a success status are the seed and the pages so linked
Reachable == {base_url} \cup Linked

\* C1: in a crawl() run no two calls of session.get are for the same canonical URL
C1_AtMostOnceFetch ==
    CrawlRun =>
        \A i, j \in DOMAIN calls : Canon(calls[i].url) = Canon(calls[j].url) => i = j

\* a recursive crawl() that fetched three pages has returned, and a page linked to the
\* seed with a trailing slash
C1_Witness ==
    /\ CrawlRun /\ recursive /\ Returned
    /\ Len(calls) = 3
    /\ [clean_url |-> base_url, is_internal |-> TRUE] \in seen

\* C2 (as claimed): when crawl(recursive=True) has returned, every reachable page was
\* fetched exactly once
C2_ReachableFetchedOnce ==
    (CrawlRun /\ recursive /\ Returned) =>
        \A url \in Reachable : Cardinality(FetchesOf(url)) = 1

\* what is left to do: per page not yet marked, its fetch and its anchors; per frame
\* on the stack, its anchors to come and the steps to its return
Weight(f) ==
    5 * f.left + (CASE f.pc = "enter" -> 4 [] f.pc = "fetch" -> 5 * MaxLinks + 3
                    [] f.pc = "links" -> 2 [] OTHER -> 1)

RECURSIVE StackWeight(_)
StackWeight(s) == IF s = <<>> THEN 0 ELSE Weight(s[1]) + StackWeight(From(s, 2))

\* the canonical URLs a run can mark: the entry URLs and the internal link targets
Pages ==
    { process_url(u).clean_url : u \in { v \in EntryURLs : process_url(v).ok } }
      \cup { x.clean_url : x \in { y \in Normalized(base_url, Hrefs) : y.is_internal } }

Variant ==
    (5 * MaxLinks + 10) * Cardinality(Pages \ visited_urls) + StackWeight(stack)
      + (IF pc = "idle" THEN 5 ELSE 0)

\* C2 (termination): every step of a run strictly decreases a natural number, so no
\* run is infinite, whatever cycles the link graph has
C2_VariantDecreases == [][Variant' < Variant /\ Variant' >= 0]_vars

\* C3 (as claimed): never two records for one URL, and once the call has returned the
\* URLs of the records are the visited URLs
C3_OneRecordPerURL ==
    /\ \A i, j \in DOMAIN results : results[i][1] = results[j][1] => i = j
    /\ Returned => { results[k][1] : k \in DOMAIN results } = visited_urls

\* C4 (as claimed): when crawl(recursive=True) has returned, the visited URLs are the
\* reachable ones
C4_VisitedIsReachable ==
    (CrawlRun /\ recursive /\ Returned) => visited_urls = Reachable

\* C4, the half that holds: no URL is visited that is not reachable
C4_VisitedWithinReachable == CrawlRun => visited_urls \subseteq Reachable

\* no record of the run is a failure record
NoFailure == \A k \in DOMAIN results : results[k][2] # "Error"

\* C5 (as claimed): when crawl(recursive=False) has returned and nothing failed, the
\* seed and every internal link of the seed page were fetched
C5_SingleLevelFollows ==
    (CrawlRun /\ ~recursive /\ Returned /\ NoFailure) =>
        \A url \in Reachable : FetchesOf(url) # {}

\* C6 (as claimed): when crawl(recursive=False) has returned, there was one fetch, of
\* the seed, the seed alone is visited and there is one record
C6_SingleLevelOneRecord ==
    (CrawlRun /\ ~recursive /\ Returned) =>
        /\ Len(calls) = 1 /\ calls[1].url = base_url
        /\ visited_urls = {base_url}
        /\ Len(results) = 1

\* C6, the part that holds: one fetch, of the seed, and the seed alone is visited
C6_SingleLevelOneFetch ==
    (CrawlRun /\ ~recursive /\ Returned) =>
        /\ Len(calls) = 1 /\ calls[1].url = base_url
        /\ visited_urls = {base_url}

\* C7: a fetch that came back with a 4xx or 5xx status has exactly one record,
\* (url, "Error", status); the frame of its page is never in the loop over the links,
\* and nothing is raised to the caller
C7_HTTPFailureRecorded ==
    \A i \in DOMAIN calls :
        (calls[i].kind = "response" /\ calls[i].status >= 400) =>
            /\ \E k \in DOMAIN results :
                  /\ results[k] = <<calls[i].url, "Error", calls[i].status>>
                  /\ RecordsOf(calls[i].url) = {k}
            /\ \A f \in Frames : f.clean_url = calls[i].url => f.pc = "sleep"
            /\ pc # "raised"

\* a linked page with anchors came back 404: its frame is at the sleep, no anchor read
C7_Witness ==
    /\ pc = "running" /\ Len(stack) = 2 /\ collect_external
    /\ top.pc = "sleep" /\ top.left = MaxLinks
    /\ calls[Len(calls)].url = top.clean_url /\ calls[Len(calls)].status = 404

\* C8: a fetch that raised has exactly one record, (url, "Error", 0), its URL stays
\* visited, and nothing is raised to the caller
C8_TransportFailureRecorded ==
    \A i \in DOMAIN calls :
        calls[i].kind = "exception" =>
            /\ \E k \in DOMAIN results :
                  /\ results[k] = <<calls[i].url, "Error", 0>>
                  /\ RecordsOf(calls[i].url) = {k}
            /\ calls[i].url \in visited_urls
            /\ pc # "raised"

\* crawl_page has returned after the fetch of a linked page raised
C8_Witness ==
    /\ entry = "crawl_page" /\ Returned
    /\ Len(calls) >= 2 /\ calls[2].kind = "exception"

\* C9 (as claimed): when crawl(recursive=True) has returned, every internal link that
\* follows, on a page, a link to a page whose fetch failed was fetched and recorded
C9_SiblingsAfterFailure ==
    (CrawlRun /\ recursive /\ Returned) =>
        \A url \in after_failure : FetchesOf(url) # {} /\ RecordsOf(url) # {}

\* the title a success record is to carry
ExpectedTitle(t) == IF t.tag /\ t.has_string THEN strip(t.string) ELSE "No title"

\* C10 (as claimed): a fetch that came back with a success status has the record
\* (url, title or "No title", status)
C10_SuccessRecord ==
    \A i \in DOMAIN calls :
        (calls[i].kind = "response" /\ calls[i].status < 400) =>
            \E k \in DOMAIN results :
                results[k] = <<calls[i].url, ExpectedTitle(calls[i].title), calls[i].status>>

\* the authority of url holds the configured domain
OnDomain(url) == Has(urlparse(url, "").netloc, domain)

\* C11: in a crawl() run every URL handed to session.get is one that process_url
\* classifies as internal, on the configured domain, and none is in external_links
C11_OnlyInternalFetched ==
    CrawlRun =>
        \A i \in DOMAIN calls :
            /\ process_url(calls[i].url).ok /\ process_url(calls[i].url).is_internal
            /\ OnDomain(calls[i].url)
            /\ calls[i].url \notin external_links

\* a recursive crawl() that collects external links has fetched two pages and holds an
\* external link
C11_Witness ==
    /\ CrawlRun /\ recursive /\ collect_external /\ Returned
    /\ Len(calls) >= 2 /\ external_links # {}

\* the host of an authority: what follows the last "@", up to the ":" of the port
AfterUserinfo(netloc) ==
    IF Has(netloc, "@")
    THEN From(netloc, 1 + CHOOSE i \in DOMAIN netloc :
                            netloc[i] = "@" /\ \A j \in (i + 1)..Len(netloc) : netloc[j] # "@")
    ELSE netloc

Host(netloc) == Upto(AfterUserinfo(netloc), FirstIn(AfterUserinfo(netloc), {":"}) - 1)

\* C12 (as claimed): a URL that process_url normalizes is internal exactly when its
\* host holds the configured domain; the domain in the userinfo does not make it so
C12_InternalIffHost ==
    \A k \in DOMAIN rets :
        rets[k].ok => (rets[k].is_internal <=> Has(Host(args[k].netloc), domain))

\* the loop over the anchors of the page on top of the stack is at an anchor
AtAnchor == pc = "running" /\ stack # <<>> /\ top.pc = "links" /\ top.left > 0

\* the step is the iteration of the loop for an anchor that carries href
ReadsHref(href) ==
    /\ AtAnchor
    /\ \/ top.fn = "_crawl_page" /\ Join_crawl_page(href, Joined(top.url, href))
       \/ top.fn = "crawl_page" /\ Join_public(href, Joined(top.url, href))

\* href, on the page on top of the stack, is a link that normalizes to an external URL
ExternalHere(href) ==
    LET r == ProcessedJoin(Joined(top.url, href))
    IN r.ok /\ ~r.is_internal

\* the step moves the loop to the next anchor and changes nothing else of the crawler
OnlyAdvances ==
    /\ UNCHANGED <<visited_urls, results, external_links, calls, pc>>
    /\ stack' = SetTop(Advance(top))

\* C13: while collection is disabled external_links is empty, and the iteration for an
\* external link changes nothing but the position of the loop
C13_ExternalOnlyWhenEnabled ==
    /\ ~collect_external => external_links = {}
    /\ [][/\ ~collect_external' => external_links' = {}
          /\ (~collect_external /\ AtAnchor) =>
                \/ OnlyAdvances
                \/ \A href \in Hrefs : ~(ExternalHere(href) /\ ReadsHref(href))]_vars

\* crawl() without collection has returned after reading an external link
C13_Witness ==
    /\ CrawlRun /\ ~collect_external /\ Returned
    /\ \E x \in seen : ~x.is_internal
    /\ \A k \in DOMAIN results : results[k][2] # "Error"

\* C14 (as claimed): when crawl(collect_external=True) has returned, external_links is
\* the set of the external links on the pages fetched with a success status
C14_ExternalLinksCollected ==
    (CrawlRun /\ collect_external /\ Returned) =>
        external_links = { x.clean_url : x \in { y \in seen : ~y.is_internal } }

\* C14, the half that holds: what external_links holds is an external link of such a page
C14_CollectedWereSeen ==
    CrawlRun => external_links \subseteq { x.clean_url : x \in { y \in seen : ~y.is_internal } }

\* hrefs that are no reference to a page: another scheme, the empty href, a bare "#"
NonFetchable == { <<"mailto", ":", "m">>, <<>>, <<"#">> }

\* C15 (as claimed): the iteration of the loop for an href that is no reference to a
\* page changes nothing but the position of the loop: no fetch, no entry in
\* visited_urls, results or external_links, in crawl() and in crawl_page()
C15_NonFetchableNoTrace ==
    [][AtAnchor => (OnlyAdvances \/ \A href \in NonFetchable : ~ReadsHref(href))]_vars

\* C15, the part that holds: the same in the runs that start at the base URL
C15_NoTraceFromBase ==
    [][(AtAnchor /\ stack[1].url = base_url) =>
          (OnlyAdvances \/ \A href \in NonFetchable : ~ReadsHref(href))]_vars

\* the two URLs of the caller have the same scheme, authority and path, letter by letter
SameButDecoration ==
    /\ args[1].scheme = args[2].scheme
    /\ args[1].netloc = args[2].netloc
    /\ args[1].path = args[2].path

\* C16: two http(s) URLs with an authority that differ only in the query, the fragment
\* or a slash at the end of the path (root "/" against no path included) both
\* normalize, to the same cleaned URL
C16_SameCleanURL ==
    (/\ Len(rets) = 2
     /\ SameButDecoration
     /\ args[1].scheme \in {"http", "https"} /\ args[1].netloc # <<>>) =>
        /\ rets[1].ok /\ rets[2].ok
        /\ rets[1].clean_url = rets[2].clean_url

\* the same, for paths whose last segment carries no ";parameters"
C16_SameWithoutParams ==
    (\A k \in 1..Len(args) : ~Has(args[k].path, ";")) => C16_SameCleanURL

\* the two URLs of the caller differ in nothing but the letter case of scheme and host
CaseOnly ==
    /\ Alike(args[1], args[2])
    /\ args[1].slash = args[2].slash
    /\ args[1].query = args[2].query
    /\ args[1].fragment = args[2].fragment

\* C17: two http(s) URLs that differ only in the letter case of scheme and host
\* normalize to the same cleaned URL, with scheme and host in lower case
C17_CaseFolded ==
    (/\ Len(rets) = 2 /\ CaseOnly
     /\ rets[1].ok /\ rets[2].ok) =>
        /\ rets[1].clean_url = rets[2].clean_url
        /\ rets[1].is_internal = rets[2].is_internal

\* C17, the part that holds: the scheme is folded, so URLs that differ only in the
\* letter case of the scheme normalize alike
C17_SchemeFolded ==
    (/\ Len(rets) = 2 /\ CaseOnly /\ args[1].netloc = args[2].netloc
     /\ rets[1].ok /\ rets[2].ok) =>
        /\ rets[1].clean_url = rets[2].clean_url
        /\ rets[1].clean_url[1] = lower(args[1].scheme)

\* the error the claim names for the URL of parts a, "" where it names none
Expected(a) ==
    IF URL(a) = <<>> THEN "Empty URL"
    ELSE IF lower(a.scheme) \notin {"", "http", "https"}
    THEN "URL processing error: Unsupported protocol"
    ELSE IF a.scheme = "" \/ a.netloc = <<>>
    THEN "URL processing error: Invalid URL format"
    ELSE ""

\* C18: a rejected URL raises the empty-input error when it is empty, the
\* unsupported-scheme error when its scheme is not http or https (mailto: and ftp:
\* included), the malformed-URL error when scheme or host is missing, and every
\* other URL is accepted
C18_ErrorTaxonomy ==
    \A k \in 1..Len(rets) :
        /\ rets[k].ok <=> Expected(args[k]) = ""
        /\ ~rets[k].ok => rets[k].error = Expected(args[k])

\* C18, the part that holds: the same for the URLs that have a host or no scheme
C18_TaxonomyWithHost ==
    \A k \in 1..Len(rets) :
        (args[k].netloc # <<>> \/ args[k].scheme = "") =>
            /\ rets[k].ok <=> Expected(args[k]) = ""
            /\ ~rets[k].ok => rets[k].error = Expected(args[k])

\* C19: session.get is not called a second time before time.sleep has run since
\* the call before, the first linked child of a page included
C19_DelayBetweenFetches ==
    [][(calls' # calls /\ calls # <<>>) => slept]_vars

\* C19, the part that holds: a run that has fetched ends with time.sleep after its
\* last fetch
C19_DelayBeforeReturn == (Returned /\ calls # <<>>) => slept

\* the path of url ends in .jpg or .pdf
EndsInAsset(url) == url # <<>> /\ Extension(url[Len(url)]) \in {"jpg", "pdf"}

PageExtensions == {"html", "htm", "php", "asp", "aspx", "jsp"}

\* the last token of a path that is not empty
Last(path) == path[Len(path)]

\* C21: is_page is TRUE for a URL whose path is empty, is "/", ends with "/" or whose
\* last segment has no extension or a page extension, FALSE for one whose last segment
\* ends in .jpg or .pdf, and FALSE for text that does not parse to a URL
C21_PageClassifier ==
    \A k \in 1..Len(rets) :
        LET parsed == urlparse(args[k], "")
        IN IF parsed.raises \/ parsed.scheme = "" \/ parsed.netloc = <<>>
           THEN rets[k] = FALSE
           ELSE /\ (\/ parsed.path = <<>>
                    \/ Last(parsed.path) = "/"
                    \/ Extension(Last(parsed.path)) \in PageExtensions \cup {""})
                      => rets[k] = TRUE
                /\ (/\ parsed.path # <<>>
                    /\ Extension(Last(parsed.path)) \in {"jpg", "pdf"})
                      => rets[k] = FALSE

\* is_page has answered for a URL that does not parse and for a picture
C21_Witness ==
    /\ Len(rets) = 2
    /\ args[1] = <<"http", ":", "/", "/", "[">> /\ rets[1] = FALSE
    /\ args[2] = base_url \o <<"/", "c.jpg">> /\ rets[2] = FALSE

\* the visit report, when it exists, is the header row and then the row of each record
\* of results, in the order of results
ReportMatches ==
    files["report.csv"].exists =>
        LET rows == files["report.csv"].rows
        IN /\ Len(rows) = Len(results) + 1
           /\ rows[1] = <<"URL", "Title", "Status Code">>
           /\ \A k \in DOMAIN results :
                 rows[k + 1] = <<results[k][1], results[k][2], str(results[k][3])>>

\* C22: save_results writes the header row URL,Title,Status Code and then one row for
\* each record of results in insertion order, the header alone when results is empty,
\* and leaves results as it is
C22_ReportContent ==
    /\ ReportMatches
    /\ [][ReportMatches' /\ results' = results]_vars

\* a report of two records is written, and so is the report of a crawler without
\* records
C22_Witness ==
    /\ files["report.csv"].exists
    /\ \/ Len(results) = 2 /\ results[1] # results[2]
       \/ results = <<>> /\ files["external_links.csv"].exists

\* the external links file, when it exists, is the header row and then the row of each
\* member of external_links, in sorted order
ExternalMatches ==
    files["external_links.csv"].exists =>
        LET rows == files["external_links.csv"].rows
        IN /\ Len(rows) = Cardinality(external_links) + 1
           /\ rows[1] = <<"External URL">>
           /\ \A u \in external_links : \E k \in 2..Len(rows) : rows[k] = <<u>>
           /\ \A j, k \in 2..Len(rows) :
                 j < k => \E m, n \in DOMAIN InOrder :
                             m < n /\ rows[j] = <<InOrder[m]>> /\ rows[k] = <<InOrder[n]>>

\* main() was given a domain that names a host
ValidDomain == process_url(<<"https", ":", "/", "/">> \o args.domain).ok

\* C23: a run of main() with external-link collection enabled ends with the visit
\* report written, one row per record, and with the external links file written, header
\* External URL and one row per external link in sorted order
C23_TwoReports ==
    (pc = "exited" /\ ValidDomain /\ args.external_links) =>
        /\ files["report.csv"].exists /\ ReportMatches
        /\ files["external_links.csv"].exists /\ ExternalMatches

\* C23, the part that holds: save_external_links_results writes the header row
\* External URL and one row per member of external_links, sorted
C23_ExternalFileSorted == ExternalMatches

\* C24: main() with a valid domain ends with exit code 0 and a report written; when
\* the construction raises it ends with a non-zero exit code and no report
C24_CLIOutcome ==
    pc = "exited" =>
        IF ValidDomain
        THEN exit_code = "0" /\ \E f \in FileNames : files[f].exists
        ELSE exit_code # "0" /\ \A f \in FileNames : ~files[f].exists

\* C24, the part that holds: a run that raises ends with exit code 1 and writes no
\* report
C24_FailureExitsNonZero ==
    (pc = "exited" /\ exit_code # "0") =>
        exit_code = "1" /\ \A f \in FileNames : ~files[f].exists

\* C25: an invocation of crawl() on an instance that has crawled starts from an empty
\* visited set, an empty ledger and an empty set of external links
C25_FreshState ==
    [][(pc = "returned" /\ pc' = "running" /\ entry' = "crawl") =>
          visited_urls' = {} /\ results' = <<>> /\ external_links' = {}]_vars

\* C25, what the code does: the second crawl() finds the base URL visited and returns
\* without a fetch, the state of the earlier invocation kept
C25_SecondCrawlKeeps ==
    [][(pc = "returned" /\ pc' = "running") =>
          /\ UNCHANGED <<visited_urls, results, external_links, calls>>
          /\ base_url \in visited_urls]_vars

\* href, on the page on top of the stack, cannot be resolved or resolves to a URL that
\* process_url rejects
RejectedHere(href) == ~ProcessedJoin(Joined(top.url, href)).ok

\* C26: the iteration for a link that cannot be resolved or that process_url rejects
\* changes nothing but the position of the loop: no record is appended and the
\* anchors after it are still read, in _crawl_page and in crawl_page
C26_RejectedLinkSkipped ==
    [][AtAnchor =>
          \/ OnlyAdvances
          \/ \A href \in Hrefs : ~(RejectedHere(href) /\ ReadsHref(href))]_vars

\* C26, the part that holds: the same in _crawl_page for the links that urljoin
\* resolves
C26_RejectedSkippedByInnerTry ==
    [][(AtAnchor /\ top.fn = "_crawl_page") =>
          \/ OnlyAdvances
          \/ \A href \in Hrefs :
                ~(RejectedHere(href) /\ ~Joined(top.url, href).raises /\ ReadsHref(href))]_vars

\* the place in results of the first record of url
FirstRecord(url) == CHOOSE k \in RecordsOf(url) : \A m \in RecordsOf(url) : k <= m

\* the pages were recorded in the order in which they were fetched
RecordsInFetchOrder ==
    \A i, j \in DOMAIN calls :
        i < j => /\ RecordsOf(calls[i].url) # {} /\ RecordsOf(calls[j].url) # {}
                 /\ FirstRecord(calls[i].url) < FirstRecord(calls[j].url)

\* every page through which the page on top of the stack was reached is in the middle
\* of its link loop and was recorded, the shallower page first
AncestorsRecorded ==
    \A i \in 1..(Len(stack) - 1) :
        /\ stack[i].pc = "links"
        /\ RecordsOf(stack[i].clean_url) # {}
        /\ i > 1 => FirstRecord(stack[i - 1].clean_url) < FirstRecord(stack[i].clean_url)

C28_MonotonicState ==
    [][/\ visited_urls \subseteq visited_urls'
       /\ external_links \subseteq external_links'
       /\ Len(results) <= Len(results')
       /\ \A k \in DOMAIN results : results'[k] = results[k]]_vars

\* a crawl that has marked and recorded two pages, one of them after a failure, and
\* collected an external link
C28_Witness ==
    /\ Returned
    /\ Cardinality(visited_urls) >= 2
    /\ Len(results) >= 2
    /\ \E k \in DOMAIN results : k > 1 /\ results[k][2] = "Error"
    /\ external_links # {}

\* every URL that was fetched and every URL that has a record is marked as visited
MarkedFirst ==
    /\ \A i \in DOMAIN calls : calls[i].url \in visited_urls
    /\ \A k \in DOMAIN results : results[k][1] \in visited_urls

\* the step tests url and marks it: it adds url alone, to a set that did not hold it,
\* fetches nothing, records nothing, calls nothing and leaves the call ready to fetch
\* url
TestsAndMarks(url) ==
    /\ url \notin visited_urls
    /\ visited_urls' = visited_urls \cup {url}
    /\ calls' = calls /\ results' = results
    /\ Len(stack') = Len(stack)
    /\ top.pc = "enter"
    /\ stack'[Len(stack')].pc = "fetch" /\ stack'[Len(stack')].clean_url = url

SkipCase ==
    /\ pc = "running" /\ stack # <<>> /\ top.pc = "enter"
    /\ LET r == Processed(top.url)
       IN  /\ r.ok
           /\ \/ r.clean_url \in visited_urls
              \/ top.fn = "_crawl_page" /\ ~r.is_internal

\* C30: a call that has to skip its URL returns at once: no fetch is issued and
\* visited_urls, results and external_links are what they were
C30_SkipIsNoOp ==
    [][SkipCase =>
          /\ calls' = calls
          /\ visited_urls' = visited_urls
          /\ results' = results
          /\ external_links' = external_links
          /\ stack' = Pop]_vars

\* _crawl_page, called with an external URL on an instance that has crawled, has
\* returned; so has crawl_page, called with the base URL that the crawl had marked
C30_Witness ==
    /\ Returned /\ entry \in {"_crawl_page", "crawl_page"}
    /\ base_url \in visited_urls
    /\ calls # <<>> /\ results # <<>>

\* C31: in every state of a run of crawl() no URL is both in visited_urls and in
\* external_links
C31_VisitedExternalDisjoint ==
    CrawlRun => visited_urls \cap external_links = {}

\* a crawl has marked a page and collected an external link from it
C31_Witness ==
    /\ CrawlRun /\ Returned
    /\ visited_urls # {} /\ external_links # {}

----------------------------------------------------------------------------
(* process_url applied to its own result, as _crawl_page does with the URL   *)
(* the link loop hands it (lines 113-117, then line 94)                      *)

RenormInit ==
    /\ pc = "idle"
    /\ entry = "none"
    /\ collect_external = FALSE
    /\ recursive = FALSE
    /\ stack = <<>>
    /\ visited_urls = {}
    /\ results = <<>>
    /\ external_links = {}
    /\ calls = <<>>
    /\ seen = {}
    /\ after_failure = {}
    /\ slept = FALSE
    /\ pages_only = FALSE
    /\ \E a \in Parts : args = <<a>>
    /\ rets = <<>>
    /\ files = NoFiles
    /\ exit_code = "none"

\* next_clean_url, next_is_internal = self.process_url(next_url), line 113
Normalize ==
    /\ rets = <<>>
    /\ rets' = <<process_url(URL(args[1]))>>
    /\ UNCHANGED <<pc, entry, collect_external, recursive, stack, visited_urls, results,
                   external_links, calls, seen, after_failure, slept, pages_only, args,
                   files, exit_code>>

\* clean_url, is_internal = self.process_url(url), line 94, in the call of line 117
\* that was given next_clean_url
Renormalize ==
    /\ Len(rets) = 1 /\ rets[1].ok
    /\ rets' = Append(rets, process_url(rets[1].clean_url))
    /\ UNCHANGED <<pc, entry, collect_external, recursive, stack, visited_urls, results,
                   external_links, calls, seen, after_failure, slept, pages_only, args,
                   files, exit_code>>

RenormNext == Normalize \/ Renormalize

RenormSpec == RenormInit /\ [][RenormNext]_vars

\* C32: process_url applied to a cleaned URL it returned succeeds and returns the same
\* cleaned URL and the same is_internal flag
C32_Idempotent ==
    Len(rets) = 2 =>
        /\ rets[2].ok
        /\ rets[2].clean_url = rets[1].clean_url
        /\ rets[2].is_internal = rets[1].is_internal

\* C32, the part that holds: the second call succeeds with the same flag, and with the
\* same cleaned URL when the first cleaned URL holds no ";"
C32_IdempotentWithoutParams ==
    Len(rets) = 2 =>
        /\ rets[2].ok
        /\ rets[2].is_internal = rets[1].is_internal
        /\ ~Has(rets[1].clean_url, ";") => rets[2].clean_url = rets[1].clean_url

====
